---- MODULE Spec2Model ----
\* A model of libpagekite's connection object (pkconn.c): one struct pk_conn,
\* the transport underneath it (socket and TLS session outcomes are chosen
\* nondeterministically), and the byte stream the transport has accepted.
\* The model assumes a build with HAVE_OPENSSL.
EXTENDS Integers, Sequences, FiniteSets, TLC

\* ---------------------------------------------------------------- bounds
\* Capacity of the output buffer, in bytes (the source's buffers are KBs).
OutCap == 1
\* Capacity of the input buffer, in bytes.
InCap == 1
\* Longest data block handed to one pkc_write call.
MaxLen == 2
\* Most bytes submitted to pkc_write between two resets.
MaxSubmit == 3
\* The flush iteration ceiling (loops_left starts at 1000 in the source).
LoopsInit == 1
\* Bytes per "KB" in the counters (1024 in the source).
KB == 2
\* CONN_REPORT_INCREMENT, in KB (defined in pkconn.h).
ReportIncrement == 1
\* CONN_WINDOW_SIZE_KB_INITIAL (defined in pkconn.h).
WindowInitial == 3
\* Highest port number (65535 on a real host); port 0 asks for an ephemeral
\* port.
MaxPort == 2

\* ------------------------------------------------------------- vocabulary
CONN_STATUS_BITS ==
  {"CHANGING", "ALLOCATED", "LISTENING", "WANT_READ", "WANT_WRITE",
   "BROKEN", "CLS_READ", "CLS_WRITE"}

\* errno values the code distinguishes (EWOULDBLOCK is EAGAIN).
Errnos == {"E0", "EINTR", "EAGAIN", "EIO", "EPIPE", "ECONNRESET"}

\* A byte no caller ever submitted: what memory outside the submitted data
\* holds.
Junk == 0

Min(a, b) == IF a < b THEN a ELSE b

\* The byte at 1-based position i of the memory that starts with mem.
MemAt(mem, i) == IF i \in 1..Len(mem) THEN mem[i] ELSE Junk

\* n bytes of memory starting off bytes after the start of mem.
ReadMem(mem, off, n) == [i \in 1..n |-> MemAt(mem, off + i)]

\* ------------------------------------------------------------ connection
\* A zero-valued struct pk_conn.
ZeroConn ==
  [ sockfd |-> 0, status |-> {}, state |-> "CLEAR_DATA", ssl |-> FALSE,
    want_write |-> 0,
    out_buffer |-> [i \in 1..OutCap |-> Junk], out_buffer_pos |-> 0,
    in_buffer_pos |-> 0, send_window_kb |-> 0,
    read_bytes |-> 0, read_kb |-> 0, sent_kb |-> 0,
    wrote_bytes |-> 0, reported_kb |-> 0 ]

\* pkc_reset_conn that gives up when it lands mid-change instead of only
\* logging the anomaly.
pkc_reset_conn_aborting(c, status) ==
  IF "CHANGING" \in c.status /\ "CHANGING" \notin status
    THEN c
    ELSE [c EXCEPT !.status = (c.status \ CONN_STATUS_BITS) \cup status,
                   !.out_buffer_pos = 0, !.in_buffer_pos = 0,
                   !.send_window_kb = WindowInitial,
                   !.read_bytes = 0, !.read_kb = 0, !.sent_kb = 0,
                   !.wrote_bytes = 0, !.reported_kb = 0,
                   !.sockfd = -1, !.state = "CLEAR_DATA",
                   !.ssl = FALSE, !.want_write = 0]

\* pkc_reset_conn: the connection after the reset.
pkc_reset_conn(c, status) ==
  [c EXCEPT !.status = (c.status \ CONN_STATUS_BITS) \cup status,
            !.out_buffer_pos = 0, !.in_buffer_pos = 0,
            !.send_window_kb = WindowInitial,
            !.read_bytes = 0, !.read_kb = 0, !.sent_kb = 0,
            !.wrote_bytes = 0, !.reported_kb = 0,
            !.sockfd = -1, !.state = "CLEAR_DATA",
            !.ssl = FALSE, !.want_write = 0]

PKC_OUT_FREE(c) == OutCap - c.out_buffer_pos
PKC_IN_FREE(c) == InCap - c.in_buffer_pos

\* ------------------------------------------------------ transport outcomes
\* One outcome of a transport call: n is the call's result (a positive n
\* means "accepts up to n bytes"), err the errno it leaves, ssl the value
\* SSL_get_error gives for a negative result.
Outcome(n, err, ssl) == [n |-> n, err |-> err, ssl |-> ssl]

\* PKS_write / PKS_read on a plain socket.
PlainOutcomes ==
  {Outcome(n, "E0", "NONE") : n \in 0..MaxLen}
  \cup {Outcome(-1, e, "NONE") : e \in {"EINTR", "EAGAIN", "EPIPE"}}

\* SSL_write / SSL_read on a TLS session.
SslOutcomes ==
  {Outcome(n, "E0", "NONE") : n \in 0..MaxLen}
  \cup {Outcome(-1, e, "WANT_WRITE") : e \in {"E0", "EAGAIN"}}
  \cup {Outcome(-1, e, "WANT_READ") : e \in {"E0", "EAGAIN"}}
  \cup {Outcome(-1, e, "SYSCALL") : e \in {"E0", "EINTR", "EPIPE"}}
  \cup {Outcome(-1, "E0", "SSL")}

\* SSL_do_handshake: n = 1 is completion.
HandshakeOutcomes ==
  {Outcome(1, "E0", "NONE")}
  \cup {Outcome(-1, e, "WANT_READ") : e \in {"E0", "EAGAIN"}}
  \cup {Outcome(-1, e, "WANT_WRITE") : e \in {"E0", "EAGAIN"}}
  \cup {Outcome(-1, "E0", "SSL")}

\* The outcomes the transport call made on connection c can have.
OutcomesFor(c) ==
  CASE c.state = "SSL_DATA" -> SslOutcomes
    [] c.state = "SSL_HANDSHAKE" /\ "BROKEN" \notin c.status -> HandshakeOutcomes
    [] OTHER -> PlainOutcomes

\* ---------------------------------------------------------- TLS handshake
pkc_start_handshake(c, err) ==
  [c EXCEPT !.state = "SSL_HANDSHAKE",
            !.status = IF err = "WANT_READ" THEN @ \cup {"WANT_READ"}
                       ELSE IF err = "WANT_WRITE" THEN @ \cup {"WANT_WRITE"}
                       ELSE @]

\* pkc_end_handshake that clears only WantRead.
pkc_end_handshake_keeps_want_write(c) ==
  [c EXCEPT !.status = @ \ {"WANT_READ"},
            !.state = "SSL_DATA"]

pkc_end_handshake(c) ==
  [c EXCEPT !.status = @ \ {"WANT_WRITE", "WANT_READ"},
            !.state = "SSL_DATA"]

\* pkc_do_handshake that treats a failed handshake as one more retry.
pkc_do_handshake_ignores_failure(c, h) ==
  IF h.n = 1 THEN [c |-> pkc_end_handshake(c), errno |-> h.err]
  ELSE CASE h.ssl = "WANT_READ" ->
              [c |-> [c EXCEPT !.status = @ \cup {"WANT_READ"}], errno |-> h.err]
         [] h.ssl = "WANT_WRITE" ->
              [c |-> [c EXCEPT !.status = @ \cup {"WANT_WRITE"}], errno |-> h.err]
         [] OTHER -> [c |-> c, errno |-> "ECONNRESET"]

\* pkc_do_handshake under handshake outcome h: the connection and errno.
pkc_do_handshake(c, h) ==
  IF h.n = 1 THEN [c |-> pkc_end_handshake(c), errno |-> h.err]
  ELSE CASE h.ssl = "WANT_READ" ->
              [c |-> [c EXCEPT !.status = @ \cup {"WANT_READ"}], errno |-> h.err]
         [] h.ssl = "WANT_WRITE" ->
              [c |-> [c EXCEPT !.status = @ \cup {"WANT_WRITE"}], errno |-> h.err]
         [] OTHER ->
              [c |-> [c EXCEPT !.status = @ \cup {"BROKEN"}], errno |-> "ECONNRESET"]

\* pkc_start_ssl: prepared says whether SSL_new and every option call
\* succeeded; h is the outcome of the first handshake step.
pkc_start_ssl(c, prepared, h) ==
  IF ~prepared
    THEN [c |-> [c EXCEPT !.ssl = FALSE], errno |-> "E0", rv |-> -1]
    ELSE LET c1 == pkc_start_handshake([c EXCEPT !.ssl = TRUE], "WANT_WRITE")
             r == pkc_do_handshake(c1, h)
         IN  [c |-> r.c, errno |-> r.errno,
              rv |-> IF "BROKEN" \in r.c.status THEN -1 ELSE 0]

\* --------------------------------------------------------------- read path
\* The byte/KB rollover of pkc_read's counters.
ReadCounters(c, bytes) ==
  [c EXCEPT !.read_kb = @ + ((c.read_bytes + bytes) \div KB),
            !.read_bytes = (c.read_bytes + bytes) % KB]

\* The classification of a negative read result (lines 304-337).
ReadError(c, o) ==
  CASE o.ssl = "WANT_WRITE" -> pkc_start_handshake(c, o.ssl)
    [] o.ssl \in {"WANT_READ", "SYSCALL", "NONE"} ->
         IF o.err \in {"E0", "EINTR", "EAGAIN"} THEN c
         ELSE [c EXCEPT !.status = @ \cup {"BROKEN"}]
    [] OTHER -> [c EXCEPT !.status = @ \cup {"BROKEN"}]

\* ReadResult treating end-of-stream as a broken connection.
ReadResult_eof_breaks(c, bytes, o) ==
  IF bytes > 0
    THEN ReadCounters([c EXCEPT !.in_buffer_pos = @ + bytes], bytes)
    ELSE IF bytes = 0
      THEN [c EXCEPT !.status = @ \cup {"CLS_READ", "BROKEN"}]
      ELSE ReadError(c, o)

\* The classification of a read result bytes (lines 285-338).
ReadResult(c, bytes, o) ==
  IF bytes > 0
    THEN ReadCounters([c EXCEPT !.in_buffer_pos = @ + bytes], bytes)
    ELSE IF bytes = 0
      THEN [c EXCEPT !.status = @ \cup {"CLS_READ"}]
      ELSE ReadError(c, o)

\* What SSL_read / PKS_read returns when asked for at most PKC_IN_FREE bytes
\* under outcome o.
TransportRead(c, o) == IF o.n > 0 THEN Min(o.n, PKC_IN_FREE(c)) ELSE o.n

\* pkc_read that classifies the zero it returns for a handshake step like a
\* transport result.
pkc_read_classifies_handshake(c, o) ==
  IF c.state = "SSL_HANDSHAKE" /\ "BROKEN" \notin c.status
    THEN LET r == pkc_do_handshake(c, o)
         IN  [c |-> ReadResult(r.c, 0, o), errno |-> r.errno, rv |-> 0]
    ELSE LET bytes == TransportRead(c, o)
             o1 == IF c.state = "SSL_DATA" THEN o ELSE [o EXCEPT !.ssl = "NONE"]
         IN  [c |-> ReadResult(c, bytes, o1), errno |-> o.err, rv |-> bytes]

\* pkc_read under transport outcome o: connection, errno and return value.
pkc_read(c, o) ==
  IF c.state = "SSL_HANDSHAKE" /\ "BROKEN" \notin c.status
    THEN LET r == pkc_do_handshake(c, o)
         IN  [c |-> r.c, errno |-> r.errno, rv |-> 0]
    ELSE LET bytes == TransportRead(c, o)
             \* Only SSL_read's failures are classified by SSL_get_error.
             o1 == IF c.state = "SSL_DATA" THEN o ELSE [o EXCEPT !.ssl = "NONE"]
         IN  [c |-> ReadResult(c, bytes, o1), errno |-> o.err, rv |-> bytes]

\* -------------------------------------------------------------- raw write
\* The status/want_write bookkeeping of a failed SSL_write (lines 363-380),
\* attempted with length len1.
SslWriteError(c, len1, o) ==
  CASE o.ssl = "NONE" -> [c |-> c, errno |-> o.err]
    [] o.ssl = "WANT_WRITE" ->
         [c |-> [c EXCEPT !.status = @ \cup {"WANT_WRITE"}, !.want_write = len1],
          errno |-> o.err]
    [] OTHER -> [c |-> c, errno |-> IF o.err = "E0" THEN "EIO" ELSE o.err]

\* The length SSL_write is called with: a remembered pending length
\* replaces the caller's.
SslWriteLength(c, length) == IF c.want_write > 0 THEN c.want_write ELSE length

\* pkc_raw_write(pkc, data, length) where data points off bytes into the
\* memory mem, under transport outcome o.  Gives the connection, the return
\* value, errno, the bytes the transport accepted and whether the transport
\* was called at all.
pkc_raw_write(c, mem, off, length, o) ==
  CASE c.state = "SSL_DATA" ->
         LET len1 == SslWriteLength(c, length)
             c1 == [c EXCEPT !.want_write = 0]
         IN  IF len1 = 0
               THEN [c |-> c1, wrote |-> 0, errno |-> "E0", bytes |-> <<>>,
                     called |-> FALSE]
               ELSE IF o.n >= 0
                 THEN LET w == Min(o.n, len1)
                      IN  [c |-> [c1 EXCEPT !.wrote_bytes = @ + w],
                           wrote |-> w, errno |-> o.err,
                           bytes |-> ReadMem(mem, off, w), called |-> TRUE]
                 ELSE LET e == SslWriteError(c1, len1, o)
                      IN  [c |-> e.c, wrote |-> o.n, errno |-> e.errno,
                           bytes |-> <<>>, called |-> TRUE]
    [] c.state = "SSL_HANDSHAKE" ->
         IF "BROKEN" \notin c.status
           THEN LET r == pkc_do_handshake(c, o)
                IN  [c |-> r.c, wrote |-> 0, errno |-> r.errno, bytes |-> <<>>,
                     called |-> TRUE]
           ELSE [c |-> c, wrote |-> 0, errno |-> "E0", bytes |-> <<>>,
                 called |-> FALSE]
    [] OTHER ->
         IF length = 0
           THEN [c |-> c, wrote |-> 0, errno |-> "E0", bytes |-> <<>>,
                 called |-> FALSE]
           ELSE IF o.n >= 0
             THEN LET w == Min(o.n, length)
                  IN  [c |-> [c EXCEPT !.wrote_bytes = @ + w],
                       wrote |-> w, errno |-> o.err,
                       bytes |-> ReadMem(mem, off, w), called |-> TRUE]
             ELSE [c |-> c, wrote |-> o.n, errno |-> o.err, bytes |-> <<>>,
                   called |-> TRUE]

\* ------------------------------------------------------- bandwidth report
\* pkc_report_progress forgetting the bytes beyond the last whole KB.
pkc_report_progress_drops_rest(c) ==
  IF c.wrote_bytes >= ReportIncrement * KB
    THEN LET kb == c.reported_kb + (c.wrote_bytes \div KB)
         IN  [c |-> [c EXCEPT !.reported_kb = kb, !.wrote_bytes = 0],
              emitted |-> TRUE, kb |-> kb]
    ELSE [c |-> c, emitted |-> FALSE, kb |-> 0]

\* pkc_report_progress: the connection, and the KB value written to the
\* companion connection (emitted says whether a report was written).
pkc_report_progress(c) ==
  IF c.wrote_bytes >= ReportIncrement * KB
    THEN LET kb == c.reported_kb + (c.wrote_bytes \div KB)
         IN  [c |-> [c EXCEPT !.reported_kb = kb, !.wrote_bytes = @ % KB],
              emitted |-> TRUE, kb |-> kb]
    ELSE [c |-> c, emitted |-> FALSE, kb |-> 0]

\* ------------------------------------------------------------------ state
VARIABLES
  pkc,            \* the struct pk_conn
  fr,             \* the locals of the pkc_write / pkc_flush call in progress
  sent,           \* the bytes the transport has accepted since the last reset
  nsub,           \* how many bytes pkc_write was handed since the last reset
  sock_blocking,  \* whether the connection's socket is in blocking mode
  open,           \* the descriptors this connection has open
  last,           \* the operation that returned last, and its result
  scn             \* observer of runs of writes against a blocked transport

vars == <<pkc, fr, sent, nsub, sock_blocking, open, last, scn>>

\* The lowest descriptor PKS_socket can return.
NewFd == 3

\* pk_error code of a failed pkc_connect (the value is defined in pkerror.h).
ERR_CONNECT_CONNECT == -2

IdleFrame ==
  [ pc |-> "idle", mode |-> "NB", caller |-> "none", hasdata |-> FALSE,
    data |-> <<>>, wrote |-> 0, flushed |-> 0, loops_left |-> 0,
    wdata |-> <<>>, status0 |-> {}, retry |-> TRUE, tried |-> FALSE,
    ceiling |-> FALSE, attempts |-> 0, frv |-> 0 ]

\* What an operation leaves behind on return: its name and return value
\* ("busy" while a pkc_write or pkc_flush call is in progress);
\* for pkc_write and pkc_flush also the result of the (last) pkc_flush it
\* ran (frv), whether that flush took a ceiling exit, and whether the
\* operation made transport attempts that all failed with a retryable
\* condition (allretry); for pkc_reset_conn the status it found (was); for
\* pkc_report_progress the KB value written to the companion (kb).
Returned(op, rv) ==
  [op |-> op, rv |-> rv, frv |-> 0, ceiling |-> FALSE, allretry |-> FALSE,
   was |-> {}, kb |-> 0]

ReturnedFrom(f, op, rv) ==
  [op |-> op, rv |-> rv, frv |-> f.frv, ceiling |-> f.ceiling,
   allretry |-> f.tried /\ f.retry, was |-> {}, kb |-> 0]

ScnOff == [phase |-> "off", subm |-> 0, base |-> 0]

\* Bytes counted as written: wrote_bytes plus the KBs already reported.
Counted(c) == c.wrote_bytes + KB * c.reported_kb

\* A transport failure that asks for a retry: interrupted, would-block or no
\* error code yet, and no TLS want-read/want-write/protocol condition.
Retryable(o) ==
  o.n < 0 /\ o.err \in {"E0", "EINTR", "EAGAIN"} /\ o.ssl \in {"NONE", "SYSCALL"}

\* The transport reports would-block.
WouldBlock(o) == o.n < 0 /\ o.err = "EAGAIN"

\* The machine: everything a pkc_write / pkc_flush step reads and writes.
Machine ==
  [c |-> pkc, fr |-> fr, sent |-> sent, blk |-> sock_blocking,
   last |-> last, scn |-> scn]

SetMachine(m) ==
  /\ pkc' = m.c
  /\ fr' = m.fr
  /\ sent' = m.sent
  /\ sock_blocking' = m.blk
  /\ last' = m.last
  /\ scn' = m.scn

\* The observer after a transport attempt with outcome o: a blocked run
\* ends when pkc_write sees the transport ready, and turns into a drain when
\* pkc_flush does.
ScnAttempt(s, f, o) ==
  IF s.phase = "blocked" /\ ~WouldBlock(o)
    THEN IF f.caller = "user" THEN [s EXCEPT !.phase = "drain"] ELSE ScnOff
    ELSE s

\* The most raw writes one pkc_flush call can make.
AttemptBound == 2 * (LoopsInit + 1) + MaxLen

\* Where the count of raw writes stops counting in pkc_write's direct loop,
\* which has no iteration ceiling of its own.
DirectCap == AttemptBound + 1

\* Bookkeeping of one pkc_raw_write call r made under outcome o.
Attempt(m, r, o) ==
  [m EXCEPT !.c = r.c,
            !.sent = @ \o r.bytes,
            !.fr.attempts = IF m.fr.pc = "wdirect" THEN Min(@ + 1, DirectCap)
                            ELSE @ + 1,
            !.fr.tried = @ \/ r.called,
            !.fr.retry = @ /\ (r.called => Retryable(o)),
            !.scn = IF r.called THEN ScnAttempt(@, m.fr, o) ELSE @]

\* ------------------------------------------------------------------ write
\* pkc_write returns rv.
WriteReturn(m, rv) ==
  [m EXCEPT !.fr = IdleFrame,
            !.last = ReturnedFrom(m.fr, "write", rv),
            !.scn = IF m.scn.phase = "blocked" /\ rv # Len(m.fr.wdata)
                      THEN [@ EXCEPT !.phase = "failed"] ELSE @]

\* pkc_flush, lines 420-436, on a connection with a socket: the locals are
\* initialised and a blocking flush puts the socket into blocking mode.
FlushBegin(m, data, hasdata, mode, caller) ==
  [m EXCEPT !.fr.pc = "flush1", !.fr.mode = mode, !.fr.caller = caller,
            !.fr.hasdata = hasdata, !.fr.data = data,
            !.fr.wrote = 0, !.fr.flushed = 0, !.fr.loops_left = LoopsInit,
            !.fr.ceiling = FALSE, !.fr.attempts = 0,
            !.blk = IF mode = "BLK" THEN TRUE ELSE @]

\* memcpy(PKC_OUT(*pkc), src, n): bytes aimed outside the buffer land in
\* other memory and are not part of the buffer afterwards.
CopyOut(c, src, n) ==
  [c EXCEPT !.out_buffer =
              [i \in 1..OutCap |->
                 IF i > c.out_buffer_pos /\ i <= c.out_buffer_pos + n
                   THEN src[i - c.out_buffer_pos] ELSE @[i]],
            !.out_buffer_pos = @ + n]

\* pkc_write, lines 533-553: wrote is the direct write's result.
WriteTail(m, wrote) ==
  LET length == Len(m.fr.wdata)
      w == IF wrote < 0 THEN 0 ELSE wrote
      wleft == length - w
      rest == SubSeq(m.fr.wdata, w + 1, length)
  IN  IF wrote < length
        THEN IF wleft <= PKC_OUT_FREE(m.c)
               THEN WriteReturn([m EXCEPT !.c = CopyOut(m.c, rest, wleft)], length)
               ELSE FlushBegin(m, rest, TRUE, "BLK", "write2")
        ELSE WriteReturn(m, length)

\* pkc_write, lines 524-531, before the first direct attempt.
WriteAfterFlush1(m) ==
  IF m.c.out_buffer_pos = 0
    THEN [m EXCEPT !.fr.pc = "wdirect"]
    ELSE WriteTail(m, 0)

\* ------------------------------------------------------------------ flush
\* pkc_flush returns rv to whoever called it.
FlushReturn(m, rv) ==
  LET m1 == [m EXCEPT !.fr.frv = rv]
  IN  CASE m.fr.caller = "user" ->
             [m1 EXCEPT !.fr = IdleFrame,
                        !.last = ReturnedFrom(m1.fr, "flush", rv)]
        [] m.fr.caller = "write1" -> WriteAfterFlush1(m1)
        [] OTHER -> WriteReturn(m1, IF rv < 0 THEN -1 ELSE Len(m.fr.wdata))

\* pkc_flush, lines 507-512.
FlushEnd(m) ==
  FlushReturn([m EXCEPT !.blk = IF m.fr.mode = "BLK" THEN FALSE ELSE @],
              m.fr.flushed)

\* Whether a write error closes the connection for writing (lines 469, 502).
ClosesWrite(errno) == errno \notin {"EAGAIN", "E0"}

\* pkc_flush, lines 457-505, after the buffer loop ended with the last raw
\* write returning wrote and leaving errno.
FlushAfterLoop1(m, wrote, errno) ==
  IF m.fr.loops_left <= 0
    THEN FlushReturn([m EXCEPT !.fr.ceiling = TRUE], -1)
    ELSE IF wrote < 0
      THEN FlushEnd([m EXCEPT !.fr.flushed = wrote,
                              !.c.status = IF ClosesWrite(errno)
                                             THEN @ \cup {"CLS_WRITE"} ELSE @])
      ELSE IF m.fr.hasdata /\ m.fr.mode = "BLK" /\ m.c.out_buffer_pos = 0
        THEN LET m1 == [m EXCEPT !.fr.flushed = 0, !.fr.wrote = 0]
             IN  IF Len(m.fr.data) > 0
                   THEN [m1 EXCEPT !.fr.pc = "flush2"]
                   ELSE FlushEnd(m1)
        ELSE FlushEnd(m)

\* memmove of the unsent rest to the front of the output buffer.
Compact(c, wrote) ==
  [c EXCEPT !.out_buffer =
              IF c.out_buffer_pos > wrote
                THEN [i \in 1..OutCap |->
                        IF i <= c.out_buffer_pos - wrote THEN @[i + wrote] ELSE @[i]]
                ELSE @,
            !.out_buffer_pos = @ - wrote]

\* One iteration of pkc_flush's buffer loop (lines 439-455) under outcome o,
\* and what follows it when the loop ends.
FlushBufferStep(m, o) ==
  LET r == pkc_raw_write(m.c, m.c.out_buffer, 0, m.c.out_buffer_pos, o)
      m1 == Attempt(m, r, o)
      m2 == IF r.wrote > 0
              THEN [m1 EXCEPT !.c = Compact(r.c, r.wrote),
                              !.fr.flushed = @ + r.wrote]
              ELSE m1
      brk == r.wrote <= 0 /\ r.errno \notin {"EINTR", "E0"}
      test == ~brk /\ m.fr.mode = "BLK" /\ m2.c.out_buffer_pos > 0
      again == test /\ m.fr.loops_left > 0
      m3 == IF test THEN [m2 EXCEPT !.fr.loops_left = @ - 1] ELSE m2
  IN  IF again THEN m3 ELSE FlushAfterLoop1(m3, r.wrote, r.errno)

\* One iteration of pkc_flush's new-data loop (lines 480-497) under outcome
\* o, and what follows it when the loop ends (lines 498-512).
FlushDataStep(m, o) ==
  LET length == Len(m.fr.data)
      r == pkc_raw_write(m.c, m.fr.data, m.fr.wrote, length - m.fr.wrote, o)
      m1 == Attempt(m, r, o)
      progress == r.wrote > 0
      brk == ~progress /\ r.errno \notin {"EINTR", "E0"}
      counted == ~progress /\ ~brk
      over == counted /\ m.fr.loops_left <= 0
      errno == IF over THEN "EIO" ELSE r.errno
      m2 == [m1 EXCEPT !.fr.wrote = IF progress THEN @ + r.wrote ELSE @,
                       !.fr.flushed = IF progress THEN @ + r.wrote ELSE @,
                       !.fr.loops_left = IF counted THEN @ - 1 ELSE @,
                       !.fr.ceiling = @ \/ over]
      done == brk \/ over \/ ~(length > m2.fr.wrote)
  IN  IF ~done THEN m2
      ELSE IF r.wrote < 0
        THEN FlushEnd([m2 EXCEPT !.fr.flushed = r.wrote,
                                 !.c.status = IF ClosesWrite(errno)
                                                THEN @ \cup {"CLS_WRITE"} ELSE @])
        ELSE FlushEnd(m2)

\* One iteration of pkc_write's direct loop (lines 527-530) under outcome o,
\* and what follows it when the loop ends.
WriteDirectStep(m, o) ==
  LET r == pkc_raw_write(m.c, m.fr.wdata, 0, Len(m.fr.wdata), o)
      m1 == Attempt(m, r, o)
  IN  IF r.wrote < 0 /\ r.errno \in {"EINTR", "E0"}
        THEN m1
        ELSE WriteTail(m1, r.wrote)

\* ---------------------------------------------------------------- actions
\* The flag sets callers pass to pkc_reset_conn.
ResetFlags == {{}, {"ALLOCATED"}, {"CHANGING", "ALLOCATED"}}

\* The outcomes of pkc_connect's system calls: which call fails, if any.
ConnectResults ==
  {"socket_fails", "rcvtimeo_fails", "sndtimeo_fails", "connect_fails", "ok"}

\* The descriptor a successful PKS_socket returns when the descriptors fds
\* are open: the lowest free one.
PKS_socket(fds) ==
  CHOOSE n \in NewFd..(NewFd + Cardinality(fds)) :
    n \notin fds /\ \A k \in NewFd..(n - 1) : k \in fds

\* pk_error code of a failed pkc_listen (the value is defined in pkerror.h).
ERR_CONNECT_LISTEN == -3

\* pkc_connect that forgets the socket it created when a later call fails.
pkc_connect_leaking(c, fds, res) ==
  LET c1 == pkc_reset_conn(c, {"CHANGING", "ALLOCATED"})
      fds1 == fds \ {c.sockfd}
      fd == IF res = "socket_fails" THEN -1 ELSE PKS_socket(fds1)
      fds2 == IF fd >= 0 THEN fds1 \cup {fd} ELSE fds1
  IN  IF res # "ok"
        THEN [c |-> [c1 EXCEPT !.sockfd = -1], open |-> fds2,
              rv |-> ERR_CONNECT_CONNECT]
        ELSE [c |-> [c1 EXCEPT !.sockfd = fd], open |-> fds2, rv |-> fd]

\* pkc_connect on connection c while the descriptors fds are open, under the
\* system calls' result res: the connection, the descriptors open afterwards
\* and the return value.  The reset closes the socket the connection held;
\* a failure after PKS_socket closes the new one.
pkc_connect(c, fds, res) ==
  LET c1 == pkc_reset_conn(c, {"CHANGING", "ALLOCATED"})
      fds1 == fds \ {c.sockfd}
      fd == IF res = "socket_fails" THEN -1 ELSE PKS_socket(fds1)
      fds2 == IF fd >= 0 THEN fds1 \cup {fd} ELSE fds1
  IN  IF res # "ok"
        THEN [c |-> [c1 EXCEPT !.sockfd = -1], open |-> fds2 \ {fd},
              rv |-> ERR_CONNECT_CONNECT]
        ELSE [c |-> [c1 EXCEPT !.sockfd = fd], open |-> fds2, rv |-> fd]

\* The connection can hand data to its transport: a TLS state has a session
\* to call, and the output offset is inside the buffer.
Usable(c) ==
  /\ c.sockfd >= 0
  /\ c.state # "CLEAR_DATA" => c.ssl
  /\ c.out_buffer_pos >= 0

\* The outcomes of pkc_listen's system calls: which call fails, if any.
ListenResults == {"socket_fails", "bind_fails", "listen_fails", "ok"}

\* The ports pkc_listen is asked for.  A call that fails before getsockname
\* never looks at the port, so one port stands for all of them there.
ListenPorts(res) == IF res = "ok" THEN 0..MaxPort ELSE {0}

\* What getsockname can report for a socket bound with the requested port:
\* failure (-1), or the bound port, which is the requested one unless an
\* ephemeral port was asked for.  It is not called (-1 stands for that too)
\* when an earlier call failed.
BoundPorts(port, res) ==
  IF res # "ok" THEN {-1}
  ELSE {-1} \cup (IF port = 0 THEN 1..MaxPort ELSE {port})

\* pkc_listen answering the sentinel 1 whenever a fixed port was requested.
pkc_listen_sentinel_for_fixed_port(c, fds, port, res, gsn) ==
  LET c1 == pkc_reset_conn(c, {"CHANGING", "ALLOCATED", "LISTENING"})
      fds1 == fds \ {c.sockfd}
      fd == IF res = "socket_fails" THEN -1 ELSE PKS_socket(fds1)
      fds2 == IF fd >= 0 THEN fds1 \cup {fd} ELSE fds1
  IN  IF res # "ok"
        THEN [c |-> [c1 EXCEPT !.sockfd = -1], open |-> fds2 \ {fd},
              rv |-> ERR_CONNECT_LISTEN]
        ELSE [c |-> [c1 EXCEPT !.sockfd = fd], open |-> fds2,
              rv |-> IF gsn # -1 /\ port = 0 THEN gsn ELSE 1]

\* pkc_listen on connection c while the descriptors fds are open, asked for
\* port, under the system calls' result res and getsockname's answer gsn:
\* the connection, the descriptors open afterwards and the return value.
pkc_listen(c, fds, port, res, gsn) ==
  LET c1 == pkc_reset_conn(c, {"CHANGING", "ALLOCATED", "LISTENING"})
      fds1 == fds \ {c.sockfd}
      fd == IF res = "socket_fails" THEN -1 ELSE PKS_socket(fds1)
      fds2 == IF fd >= 0 THEN fds1 \cup {fd} ELSE fds1
  IN  IF res # "ok"
        THEN [c |-> [c1 EXCEPT !.sockfd = -1], open |-> fds2 \ {fd},
              rv |-> ERR_CONNECT_LISTEN]
        ELSE [c |-> [c1 EXCEPT !.sockfd = fd], open |-> fds2,
              rv |-> IF gsn # -1 THEN gsn ELSE 1]

Idle == fr.pc = "idle"

\* The connection is not a listener: pagekite accepts on its listening
\* sockets and makes the calls below on connected ones only.
Connected(c) == "LISTENING" \notin c.status

Init ==
  /\ pkc = pkc_reset_conn(ZeroConn, {})
  /\ fr = IdleFrame
  /\ sent = <<>>
  /\ nsub = 0
  /\ sock_blocking = FALSE
  /\ open = {}
  /\ last = Returned("init", 0)
  /\ scn = ScnOff

\* pkc_reset_conn(pkc, F)
Reset(F) ==
  /\ Idle
  /\ pkc' = pkc_reset_conn(pkc, F)
  /\ open' = open \ {pkc.sockfd}
  /\ sock_blocking' = FALSE
  /\ sent' = <<>>
  /\ nsub' = 0
  /\ last' = [Returned("reset", 0) EXCEPT !.was = pkc.status]
  /\ scn' = ScnOff
  /\ UNCHANGED fr

\* pkc_connect(pkc, ai) under the system calls' result res.
Connect(res) ==
  /\ Idle
  /\ LET r == pkc_connect(pkc, open, res)
     IN  /\ pkc' = r.c
         /\ open' = r.open
         /\ sock_blocking' = (res = "ok")
         /\ last' = Returned("connect", r.rv)
  /\ sent' = <<>>
  /\ nsub' = 0
  /\ scn' = ScnOff
  /\ UNCHANGED fr

\* pkc_listen(pkc, ai, backlog) with ai naming port.
Listen(port, res, gsn) ==
  /\ Idle
  /\ sock_blocking' = (res = "ok")
  /\ LET r == pkc_listen(pkc, open, port, res, gsn)
     IN  /\ last' = Returned("listen", r.rv)
         /\ pkc' = r.c
         /\ open' = r.open
  /\ sent' = <<>>
  /\ nsub' = 0
  /\ scn' = ScnOff
  /\ UNCHANGED fr

\* pkc_start_ssl(pkc, ctx, hostname)
StartSsl(prepared, h) ==
  /\ Idle
  /\ Connected(pkc)
  /\ pkc.sockfd >= 0
  /\ LET r == pkc_start_ssl(pkc, prepared, h)
     IN  /\ pkc' = r.c
         /\ last' = Returned("start_ssl", r.rv)
  /\ UNCHANGED <<fr, sent, nsub, sock_blocking, open, scn>>

\* pkc_read(pkc) under transport outcome o.
Read(o) ==
  /\ Idle
  /\ Connected(pkc)
  /\ pkc.sockfd >= 0
  /\ pkc.state # "CLEAR_DATA" => pkc.ssl
  /\ LET r == pkc_read(pkc, o)
     IN  /\ pkc' = r.c
         /\ last' = Returned("read", 0)
  /\ UNCHANGED <<fr, sent, nsub, sock_blocking, open, scn>>

\* pkc_report_progress(pkc, sid, feconn)
ReportProgress ==
  /\ Idle
  /\ Connected(pkc)
  /\ pkc.sockfd >= 0
  /\ LET r == pkc_report_progress(pkc)
     IN  /\ pkc' = r.c
         /\ last' = [Returned("report", IF r.emitted THEN 1 ELSE 0)
                       EXCEPT !.kb = r.kb]
  /\ UNCHANGED <<fr, sent, nsub, sock_blocking, open, scn>>

\* pkc_flush(pkc, NULL, 0, mode, where) is called.
FlushCall(mode) ==
  /\ Idle
  /\ Connected(pkc)
  /\ pkc.state # "CLEAR_DATA" => pkc.ssl
  /\ pkc.out_buffer_pos >= 0
  /\ LET m0 == [Machine EXCEPT !.fr.status0 = pkc.status,
                               !.fr.caller = "user", !.fr.mode = mode,
                               !.last = Returned("busy", 0)]
     IN  IF pkc.sockfd < 0
           THEN SetMachine(FlushReturn(m0, -1))
           ELSE SetMachine(FlushBegin(m0, <<>>, FALSE, mode, "user"))
  /\ UNCHANGED <<nsub, open>>

\* The observer when pkc_write is handed len more bytes.
ScnWrite(s, c, len) ==
  IF s.phase = "blocked"
    THEN IF s.subm + len <= OutCap THEN [s EXCEPT !.subm = @ + len] ELSE ScnOff
    ELSE IF c.out_buffer_pos = 0 /\ "ALLOCATED" \in c.status /\ len <= OutCap
      THEN [phase |-> "blocked", subm |-> len, base |-> Counted(c)]
      ELSE ScnOff

\* pkc_write(pkc, data, len) is called; data are the next len bytes.
WriteCall(len) ==
  /\ Idle
  /\ Connected(pkc)
  /\ Usable(pkc)
  /\ nsub + len <= MaxSubmit
  /\ nsub' = nsub + len
  /\ LET m0 == [Machine EXCEPT !.fr.status0 = pkc.status,
                               !.fr.wdata = [i \in 1..len |-> nsub + i],
                               !.last = Returned("busy", 0),
                               !.scn = ScnWrite(@, pkc, len)]
     IN  IF pkc.out_buffer_pos # 0
           THEN SetMachine(FlushBegin(m0, <<>>, FALSE, "NB", "write1"))
           ELSE SetMachine(WriteAfterFlush1(m0))
  /\ UNCHANGED open

\* The call in progress makes its next raw write, with outcome o.
FlushBuffer(o) ==
  /\ fr.pc = "flush1"
  /\ SetMachine(FlushBufferStep(Machine, o))
  /\ UNCHANGED <<nsub, open>>

FlushData(o) ==
  /\ fr.pc = "flush2"
  /\ SetMachine(FlushDataStep(Machine, o))
  /\ UNCHANGED <<nsub, open>>

WriteDirect(o) ==
  /\ fr.pc = "wdirect"
  /\ SetMachine(WriteDirectStep(Machine, o))
  /\ UNCHANGED <<nsub, open>>

Next ==
  \/ \E F \in ResetFlags : Reset(F)
  \/ \E res \in ConnectResults : Connect(res)
  \/ \E res \in ListenResults : \E port \in ListenPorts(res) :
       \E gsn \in BoundPorts(port, res) : Listen(port, res, gsn)
  \/ \E prepared \in BOOLEAN, h \in HandshakeOutcomes : StartSsl(prepared, h)
  \/ \E o \in OutcomesFor(pkc) : Read(o)
  \/ ReportProgress
  \/ \E mode \in {"NB", "BLK"} : FlushCall(mode)
  \/ \E len \in 1..MaxLen : WriteCall(len)
  \/ \E o \in OutcomesFor(pkc) : FlushBuffer(o)
  \/ \E o \in OutcomesFor(pkc) : FlushData(o)
  \/ \E o \in OutcomesFor(pkc) : WriteDirect(o)

Spec == Init /\ [][Next]_vars

\* ----------------------------------------------------------------- claims
\* A step in which the pkc_write call in progress returns.
WriteReturns == fr.pc # "idle" /\ fr'.pc = "idle" /\ last'.op = "write"

\* A step in which a pkc_flush call returns to the connection's owner.
FlushReturns == fr.pc # "idle" /\ fr'.pc = "idle" /\ last'.op = "flush"

\* A step in which a blocking pkc_flush returns, to its caller or to the
\* pkc_write that forced it.
BlockingFlushReturns ==
  fr.pc \in {"flush1", "flush2"} /\ fr.mode = "BLK" /\ fr'.pc = "idle"

\* A step of pkc_reset_conn, directly or inside pkc_connect / pkc_listen.
Resets == last'.op \in {"reset", "connect", "listen"}

\* The connection carries a persistent fatal flag.
Marked(c) == "CLS_WRITE" \in c.status \/ "BROKEN" \in c.status

\* The bytes the output buffer holds.
Buffered(c) == {c.out_buffer[i] : i \in 1..Min(c.out_buffer_pos, OutCap)}

\* The bytes the transport has accepted.
Accepted(q) == {q[i] : i \in 1..Len(q)}

\* C1: after pkc_reset_conn(pkc, F), whatever state the connection was in,
\* the socket handle is -1, both buffer offsets and all counters are 0, the
\* send window is the initial value, the transport state is plain data with
\* no TLS session and no pending write length, and the status is exactly F.
C1_ResetBaseline ==
  [][\A F \in ResetFlags :
       (last'.op = "reset" /\ Reset(F)) =>
         /\ pkc'.sockfd = -1
         /\ pkc'.out_buffer_pos = 0 /\ pkc'.in_buffer_pos = 0
         /\ pkc'.read_bytes = 0 /\ pkc'.read_kb = 0 /\ pkc'.sent_kb = 0
         /\ pkc'.wrote_bytes = 0 /\ pkc'.reported_kb = 0
         /\ pkc'.send_window_kb = WindowInitial
         /\ pkc'.state = "CLEAR_DATA" /\ ~pkc'.ssl /\ pkc'.want_write = 0
         /\ pkc'.status = F]_vars

\* A reset without Changing has landed on a connection that carried Changing.
C1_Witness ==
  /\ last.op = "reset"
  /\ "CHANGING" \in last.was
  /\ "CHANGING" \notin pkc.status

\* C2: whenever pkc_write returns the full length of its data, every byte of
\* the data has been accepted by the transport or is held in the output
\* buffer.
C2_NoByteDiscarded ==
  [][(WriteReturns /\ last'.rv = Len(fr.wdata)) =>
       \A i \in 1..Len(fr.wdata) :
         fr.wdata[i] \in Accepted(sent') \cup Buffered(pkc')]_vars

\* C3: whenever pkc_write returns a failure, the connection carries
\* ClosedForWrite or Broken on return.
C3_FailureIsMarked ==
  [][(WriteReturns /\ last'.rv < 0) => Marked(pkc')]_vars

\* C4: from an allocated connection with an empty output buffer, writes of
\* at most the buffer capacity in total against a transport that only
\* reports would-block all return their full length and leave exactly the
\* submitted bytes in the buffer; once flushes have emptied the buffer, the
\* bytes counted as written have grown by the bytes submitted.  (Empty is
\* pkc_flush's own test: the buffer loop runs while out_buffer_pos > 0.)
C4_BlockedWritesAreKept ==
  /\ scn.phase # "failed"
  /\ (Idle /\ scn.phase = "blocked") =>
       /\ pkc.out_buffer_pos = scn.subm
       /\ \A i \in 1..scn.subm : pkc.out_buffer[i] = nsub - scn.subm + i
  /\ (Idle /\ scn.phase = "drain" /\ ~(pkc.out_buffer_pos > 0)) =>
       Counted(pkc) - scn.base = scn.subm

\* C5: the bytes the transport has accepted are always a prefix of the bytes
\* handed to pkc_write, in submission order.
C5_SubmissionOrder ==
  /\ Len(sent) <= nsub
  /\ \A i \in 1..Len(sent) : sent[i] = i

\* C6: a blocking pkc_flush returns after a bounded number of raw writes,
\* and when it gave up at the iteration ceiling it returns an error and the
\* connection is marked.
C6_CeilingIsFatal ==
  [][BlockingFlushReturns =>
       /\ fr.attempts + 1 <= AttemptBound
       /\ last'.ceiling => (last'.frv < 0 /\ Marked(pkc'))]_vars

\* C7: every blocking pkc_flush on an allocated socket leaves the socket in
\* non-blocking mode when it returns.
C7_NonBlockingRestored ==
  [][(BlockingFlushReturns /\ pkc.sockfd >= 0) => ~sock_blocking']_vars

\* C8: pkc_report_progress changes nothing below the reporting increment;
\* with the increment N reached and less than one further KB written, it
\* writes one report carrying the cumulative KB count increased by N and
\* leaves the remainder below one KB; reported_kb never decreases between
\* resets.
C8_ReportProgress ==
  [][/\ (last'.op = "report" /\ ReportProgress) =>
          LET wb == pkc.wrote_bytes
              n == ReportIncrement
          IN  /\ wb < n * KB => (pkc' = pkc /\ last'.rv = 0)
              /\ (wb >= n * KB /\ wb < (n + 1) * KB) =>
                   /\ last'.rv = 1
                   /\ last'.kb = pkc.reported_kb + n
                   /\ pkc'.reported_kb = pkc.reported_kb + n
                   /\ pkc'.wrote_bytes = wb - n * KB
                   /\ pkc'.wrote_bytes < KB
     /\ ~Resets => pkc'.reported_kb >= pkc.reported_kb]_vars

\* A report has been written with a remainder left pending.
C8_Witness ==
  /\ last.op = "report"
  /\ last.rv = 1
  /\ last.kb = ReportIncrement
  /\ pkc.wrote_bytes > 0

\* A read failure that asks for a retry.
RetryableRead(o) ==
  /\ o.n < 0
  /\ o.err \in {"E0", "EINTR", "EAGAIN"}
  /\ o.ssl \in {"NONE", "WANT_READ", "SYSCALL"}

C10_RetryKeepsStatus ==
  [][/\ \A o \in OutcomesFor(pkc) :
          (last'.op = "read" /\ pkc.state \in {"CLEAR_DATA", "SSL_DATA"}
             /\ RetryableRead(o) /\ Read(o))
            => pkc'.status = pkc.status
     /\ ((WriteReturns \/ (FlushReturns /\ fr.mode = "NB"))
           /\ last'.allretry /\ ~last'.ceiling)
          => pkc'.status = fr.status0]_vars

\* A step in which one handshake step with outcome h is driven: by
\* pkc_start_ssl, or by a read or raw write on a connection in TLS handshake
\* state that is not broken.
HandshakeDriven(h) ==
  \/ last'.op = "start_ssl" /\ StartSsl(TRUE, h)
  \/ /\ pkc.state = "SSL_HANDSHAKE"
     /\ "BROKEN" \notin pkc.status
     /\ Read(h) \/ FlushBuffer(h) \/ FlushData(h) \/ WriteDirect(h)

\* C11: every handshake step driven by pkc_start_ssl, a read or a raw write
\* that reports want-read or want-write leaves the connection in TLS
\* handshake state with the matching flag set; a step that reports
\* completion leaves it in TLS data state with WantRead and WantWrite both
\* clear.
C11_HandshakeProgression ==
  [][(last'.op = "start_ssl" \/ pkc.state = "SSL_HANDSHAKE") =>
     \A h \in HandshakeOutcomes :
       HandshakeDriven(h) =>
         /\ h.n = 1 =>
              /\ pkc'.state = "SSL_DATA"
              /\ pkc'.status \cap {"WANT_READ", "WANT_WRITE"} = {}
         /\ (h.n # 1 /\ h.ssl \in {"WANT_READ", "WANT_WRITE"}) =>
              /\ pkc'.state = "SSL_HANDSHAKE"
              /\ h.ssl \in pkc'.status]_vars

\* pkc_start_ssl has returned success with the handshake complete: the
\* WantWrite it set at handshake start is gone.
C11_Witness ==
  /\ last.op = "start_ssl"
  /\ last.rv = 0
  /\ pkc.state = "SSL_DATA"
  /\ pkc.status \cap {"WANT_READ", "WANT_WRITE"} = {}

\* C12: a pkc_connect in which socket creation, either timeout option or
\* the connect call fails returns ERR_CONNECT_CONNECT with the socket handle
\* -1 and no descriptor left open: the socket made during the attempt and
\* the one held before the call are closed.  A successful pkc_connect leaves
\* the handle on the new socket, the only descriptor open, and returns it;
\* the status contains Allocated.
C12_ConnectOutcome ==
  [][last'.op = "connect" =>
     \A res \in ConnectResults :
       Connect(res) =>
         IF res # "ok"
           THEN /\ last'.rv = ERR_CONNECT_CONNECT
                /\ pkc'.sockfd = -1
                /\ open' = {}
           ELSE /\ pkc'.sockfd >= 0
                /\ last'.rv = pkc'.sockfd
                /\ open' = {pkc'.sockfd}
                /\ "ALLOCATED" \in pkc'.status]_vars

\* A pkc_connect has failed: the handle is -1 and nothing is open.
C12_Witness ==
  /\ last.op = "connect"
  /\ last.rv = ERR_CONNECT_CONNECT
  /\ pkc.sockfd = -1
  /\ open = {}

\* C13: a successful pkc_listen returns the port the local-address query
\* reports when port 0 was requested, and the sentinel 1 when a non-zero
\* port was requested; a pkc_listen in which socket creation, bind or listen
\* fails returns ERR_CONNECT_LISTEN with the handle -1 and nothing open.
C13_ListenReturn ==
  [][last'.op = "listen" =>
     \A res \in ListenResults : \A port \in ListenPorts(res) :
       \A gsn \in BoundPorts(port, res) :
         Listen(port, res, gsn) =>
           IF res # "ok"
             THEN /\ last'.rv = ERR_CONNECT_LISTEN
                  /\ pkc'.sockfd = -1
                  /\ open' = {}
             ELSE /\ (port = 0 /\ gsn # -1) => last'.rv = gsn
                  /\ port # 0 => last'.rv = 1]_vars

\* C13 as amended: a successful pkc_listen returns the bound port whenever
\* the local-address query succeeds (the port the system assigned if port 0
\* was requested, the requested port otherwise) and the sentinel 1 only when
\* the query fails; failures are as in C13.
C13_ListenReturnsBoundPort ==
  [][last'.op = "listen" =>
     \A res \in ListenResults : \A port \in ListenPorts(res) :
       \A gsn \in BoundPorts(port, res) :
         Listen(port, res, gsn) =>
           IF res # "ok"
             THEN /\ last'.rv = ERR_CONNECT_LISTEN
                  /\ pkc'.sockfd = -1
                  /\ open' = {}
             ELSE /\ gsn # -1 => last'.rv = gsn
                  /\ (gsn # -1 /\ port # 0) => last'.rv = port
                  /\ gsn = -1 => last'.rv = 1
                  /\ pkc'.sockfd >= 0 /\ open' = {pkc'.sockfd}]_vars

\* A pkc_listen has succeeded and returned a port that is not the sentinel.
C13_Witness ==
  /\ last.op = "listen"
  /\ last.rv > 1
  /\ "LISTENING" \in pkc.status
  /\ pkc.sockfd >= 0

\* C14: in every reachable state both buffer offsets lie between 0 and
\* their buffer's capacity.
C14_OffsetsInRange ==
  /\ 0 <= pkc.out_buffer_pos /\ pkc.out_buffer_pos <= OutCap
  /\ 0 <= pkc.in_buffer_pos /\ pkc.in_buffer_pos <= InCap

\* C15: in every reachable state the transport state is TLS handshake or
\* TLS data only if the connection holds a live TLS session.
C15_TlsStateHasSession ==
  pkc.state \in {"SSL_HANDSHAKE", "SSL_DATA"} => pkc.ssl

\* Neither WantRead nor WantWrite is set.
WantClear(c) == c.status \cap {"WANT_READ", "WANT_WRITE"} = {}

\* C16: WantRead and WantWrite are both clear after a step in which a
\* handshake step completes, a read in plain-data or TLS-data state delivers
\* bytes into the input buffer, or a raw write in plain-data or TLS-data
\* state hands bytes to the transport.
C16_WantFlagsTransient ==
  [][/\ (last'.op = "start_ssl" \/ pkc.state = "SSL_HANDSHAKE") =>
          \A h \in HandshakeOutcomes :
            (HandshakeDriven(h) /\ h.n = 1) => WantClear(pkc')
     /\ (last'.op = "read" /\ pkc.state \in {"CLEAR_DATA", "SSL_DATA"}
           /\ pkc'.in_buffer_pos > pkc.in_buffer_pos) => WantClear(pkc')
     /\ (pkc.state \in {"CLEAR_DATA", "SSL_DATA"} /\ Len(sent') > Len(sent))
          => WantClear(pkc')]_vars

\* C17: a handshake step that fails with anything but want-read/want-write
\* sets Broken; Broken and ClosedForWrite, once set, stay set across every
\* step that is not a reset (direct or through pkc_connect / pkc_listen),
\* and a reset clears them; a broken connection in TLS handshake state is
\* left in that state, with its WantRead/WantWrite flags as they were, by
\* every read, write, flush and report.
C17_FatalUntilReset ==
  [][/\ (last'.op = "start_ssl" \/ pkc.state = "SSL_HANDSHAKE") =>
          \A h \in HandshakeOutcomes :
            (HandshakeDriven(h) /\ h.n # 1
               /\ h.ssl \notin {"WANT_READ", "WANT_WRITE"})
              => "BROKEN" \in pkc'.status
     /\ ~Resets =>
          /\ "BROKEN" \in pkc.status => "BROKEN" \in pkc'.status
          /\ "CLS_WRITE" \in pkc.status => "CLS_WRITE" \in pkc'.status
     /\ Resets => ~Marked(pkc')
     /\ (pkc.state = "SSL_HANDSHAKE" /\ "BROKEN" \in pkc.status
           /\ ~Resets /\ last'.op # "start_ssl") =>
          /\ pkc'.state = "SSL_HANDSHAKE"
          /\ pkc'.status \cap {"WANT_READ", "WANT_WRITE"}
               = pkc.status \cap {"WANT_READ", "WANT_WRITE"}]_vars

\* A write has returned on a connection whose handshake had failed: it is
\* still broken and still in TLS handshake state.
C17_Witness ==
  /\ last.op = "write"
  /\ pkc.state = "SSL_HANDSHAKE"
  /\ "BROKEN" \in pkc.status

\* C18: a read or raw write made in TLS handshake state on a connection
\* that is not broken drives exactly one handshake step and moves no
\* application data: it reports zero bytes, the transport is handed nothing,
\* the input offset and the read and write counters stay as they were, and
\* the status and state are those the one handshake step leaves (so the
\* zero a read returns does not set ClosedForRead).
C18_HandshakeMovesNoData ==
  [][(pkc.state = "SSL_HANDSHAKE" /\ "BROKEN" \notin pkc.status) =>
       \A h \in HandshakeOutcomes :
         (Read(h) \/ FlushBuffer(h) \/ FlushData(h) \/ WriteDirect(h)) =>
           LET step == pkc_do_handshake(pkc, h).c
               raw == pkc_raw_write(pkc, fr.wdata, 0, Len(fr.wdata), h)
           IN  /\ IF Idle THEN pkc_read(pkc, h).rv = 0
                          ELSE raw.wrote = 0 /\ raw.called
               /\ sent' = sent
               /\ pkc'.in_buffer_pos = pkc.in_buffer_pos
               /\ pkc'.read_bytes = pkc.read_bytes
               /\ pkc'.read_kb = pkc.read_kb
               /\ pkc'.wrote_bytes = pkc.wrote_bytes
               /\ pkc'.state = step.state
               /\ pkc'.status = step.status
               /\ "CLS_READ" \in pkc'.status => "CLS_READ" \in pkc.status]_vars

\* A write made during the handshake has returned: its bytes sit in the
\* output buffer and the transport has been handed nothing.
C18_Witness ==
  /\ last.op = "write"
  /\ pkc.state = "SSL_HANDSHAKE"
  /\ "BROKEN" \notin pkc.status
  /\ pkc.out_buffer_pos > 0
  /\ nsub > 0
  /\ sent = <<>>

\* C19: a pkc_write call makes a bounded number of raw writes: in its
\* direct loop it never goes beyond the number a blocking flush can make.
C19_WriteAttemptsBounded ==
  fr.pc = "wdirect" => fr.attempts <= AttemptBound

\* C20: a read sets ClosedForRead only when the peer has signalled
\* end-of-stream: a read whose transport outcome is not end-of-stream (the
\* peer has bytes to deliver, the call fails, or a handshake step is driven)
\* leaves ClosedForRead as it was.
C20_EofOnlyFromPeer ==
  [][last'.op = "read" =>
       \A o \in OutcomesFor(pkc) :
         (o.n # 0 /\ Read(o)) =>
           ("CLS_READ" \in pkc'.status => "CLS_READ" \in pkc.status)]_vars

====
